---------------------------- MODULE Spec2Model ----------------------------
(***************************************************************************)
(* stm32pio/core/settings.py: the executable locator, the companion-       *)
(* runtime (java) locator, the defaults dictionary built when the module   *)
(* is loaded, and the continuous-integration override.                     *)
(*                                                                         *)
(* Strings are sequences of atoms: a path separator ("/" or "\\"), a       *)
(* drive ("C:"), a dot component (".") or a whole file name.  A pathlib    *)
(* Path is a record [drive, root, parts]; PurePath parses a string and     *)
(* Str formats a path, with the separator and drive rules of the flavour   *)
(* of the running platform, so str(Path(s)) is s only when s is already    *)
(* in normal form.                                                         *)
(***************************************************************************)
EXTENDS Integers, Sequences, FiniteSets, TLC

VARIABLES
    my_os,            \* platform.system()
    environ,          \* os.environ: a function from the names that are set
    which_hit,        \* what shutil.which answers for each name
    fs,               \* the filesystem: path -> "missing" | "file" | "xfile" | "dir" | "denied"
    file_text,        \* the text of the files that are read
    pc,               \* where the load (or the call under test) stands
    ret,              \* outcome of the function under test
    arg,              \* argument of the function under test
    probes,           \* the paths the companion-runtime locator has probed, in order
    detected_cubemx,  \* _detected_cubemx
    detected_java,    \* _detected_java
    config_default,   \* config_default
    module_consts,    \* the module constants assigned at load
    exc,              \* the exception that ended the load, "" if none
    loads,            \* how many times the module body has run to its end
    first_config      \* config_default as the first load left it

vars == <<my_os, environ, which_hit, fs, file_text, pc, ret, arg, probes,
          detected_cubemx, detected_java, config_default, module_consts, exc, loads, first_config>>

-----------------------------------------------------------------------------
(* Python values *)

\* Python's None where a string is expected (os.environ.get, shutil.which)
NoneVal == <<"<None>">>

\* truthiness of an optional string: None and '' are falsy
Truthy(s) == s # NoneVal /\ s # <<>>

\* os.environ.get(name)
Getenv(name) == IF name \in DOMAIN environ THEN environ[name] ELSE NoneVal

\* os.environ.get(name, default)
GetenvOr(name, default) == IF name \in DOMAIN environ THEN environ[name] ELSE default

-----------------------------------------------------------------------------
(* pathlib *)

\* pathlib picks WindowsPath when os.name is 'nt', the case platform.system() = 'Windows'
IsWin == my_os = "Windows"

Sep == IF IsWin THEN "\\" ELSE "/"

IsSep(a) == a = "/" \/ (IsWin /\ a = "\\")

Drives == {"C:"}

\* parts joined by sep: <<a, sep, b, sep, c>>
Interleave(parts, sep) ==
    [i \in 1..(2 * Len(parts) - 1) |->
        IF i % 2 = 1 THEN parts[(i + 1) \div 2] ELSE sep]

\* Path(s): a drive is recognised on Windows only; repeated separators, a
\* trailing separator and "." components are dropped
PurePath(s) ==
    LET hasDrive == IsWin /\ Len(s) > 0 /\ s[1] \in Drives
        rest     == IF hasDrive THEN Tail(s) ELSE s
    IN  [drive |-> IF hasDrive THEN s[1] ELSE "",
         root  |-> Len(rest) > 0 /\ IsSep(rest[1]),
         parts |-> SelectSeq(rest, LAMBDA a : ~IsSep(a) /\ a # ".")]

\* str(p)
Str(p) ==
    LET anchor == (IF p.drive # "" THEN <<p.drive>> ELSE <<>>)
                  \o (IF p.root THEN <<Sep>> ELSE <<>>)
    IN  IF p.parts = <<>>
        THEN (IF anchor = <<>> THEN <<".">> ELSE anchor)
        ELSE anchor \o Interleave(p.parts, Sep)

\* p / q for two paths: an anchored right operand replaces the left one
JoinPath(p, q) ==
    IF q.drive # "" /\ q.drive # p.drive THEN q
    ELSE IF q.root
         THEN [drive |-> IF q.drive # "" THEN q.drive ELSE p.drive,
               root |-> TRUE, parts |-> q.parts]
         ELSE [p EXCEPT !.parts = @ \o q.parts]

\* p / s for a string s
Join(p, s) == JoinPath(p, PurePath(s))

\* p.parent: an anchor or the empty path is its own parent
Parent(p) ==
    IF p.parts = <<>> THEN p
    ELSE [p EXCEPT !.parts = SubSeq(@, 1, Len(@) - 1)]

-----------------------------------------------------------------------------
(* the filesystem *)

Stat(p) == IF p \in DOMAIN fs THEN fs[p] ELSE "missing"

\* Path.exists() lets an access error through (only ENOENT, ENOTDIR, EBADF
\* and ELOOP are taken as "no"); Denied(p) is the case where it raises
Denied(p) == Stat(p) = "denied"

Exists(p) == Stat(p) \in {"file", "xfile", "dir"}

IsDir(p) == Stat(p) = "dir"

\* os.access(str(c), os.X_OK): never raises
AccessX(p) == Stat(p) \in {"xfile", "dir"}

-----------------------------------------------------------------------------
(* outcomes of a call *)

Returned(s) == [kind |-> "return", val |-> s]
Raised(e)   == [kind |-> "raise", val |-> <<e>>]
NoResult    == [kind |-> "none", val |-> <<>>]

-----------------------------------------------------------------------------
(* _find_cubemx_executable *)

env_vars == <<"STM32CUBEMX_HOME", "STM32_CUBEMX_HOME", "STM32_CUBEMX", "STM32CUBEMX",
              "STM32_CUBEMX_PATH", "STM32CUBEMX_PATH">>

\* the three candidates tried inside a directory p
Candidates(p) ==
    << Join(p, <<"STM32CubeMX">>),
       Join(p, <<"STM32CubeMX.exe">>),
       Join(Join(Join(Join(p, <<"STM32CubeMX.app">>), <<"Contents">>), <<"MacOS">>),
            <<"STM32CubeMX">>) >>

\* for c in candidates: if c.exists(): return str(c)    (no try around it)
RECURSIVE FirstCandidate(_, _)
FirstCandidate(cands, j) ==
    IF j > Len(cands) THEN NoResult
    ELSE IF Denied(cands[j]) THEN Raised("PermissionError")
    ELSE IF Exists(cands[j]) THEN Returned(Str(cands[j]))
    ELSE FirstCandidate(cands, j + 1)

\* EnvStage without the directory branch: any existing path is returned as is
RECURSIVE EnvStage_NoDirBranch(_)
EnvStage_NoDirBranch(i) ==
    IF i > Len(env_vars) THEN NoResult
    ELSE LET val == Getenv(env_vars[i])
             p   == PurePath(val)
         IN  IF ~Truthy(val) THEN EnvStage_NoDirBranch(i + 1)
             ELSE IF Denied(p) THEN Raised("PermissionError")
             ELSE IF ~Exists(p) THEN EnvStage_NoDirBranch(i + 1)
             ELSE Returned(Str(p))

\* the loop over env_vars, from the i-th name on
RECURSIVE EnvStage(_)
EnvStage(i) ==
    IF i > Len(env_vars) THEN NoResult
    ELSE LET val == Getenv(env_vars[i])
             p   == PurePath(val)
         IN  IF ~Truthy(val) THEN EnvStage(i + 1)
             ELSE IF Denied(p) THEN Raised("PermissionError")
             ELSE IF ~Exists(p) THEN EnvStage(i + 1)
             ELSE IF IsDir(p)
                  THEN LET c == FirstCandidate(Candidates(p), 1)
                       IN  IF c.kind = "none" THEN EnvStage(i + 1) ELSE c
                  ELSE Returned(Str(p))

\* shutil.which(name)
Which(name) == IF name \in DOMAIN which_hit THEN which_hit[name] ELSE NoneVal

exec_name == IF my_os = "Windows" THEN "STM32CubeMX.exe" ELSE "STM32CubeMX"

\* which_path with the generic name looked up first
which_path_GenericFirst ==
    IF Truthy(Which("STM32CubeMX")) THEN Which("STM32CubeMX") ELSE Which(exec_name)

\* shutil.which(exec_name) or shutil.which('STM32CubeMX')
which_path ==
    IF Truthy(Which(exec_name)) THEN Which(exec_name) ELSE Which("STM32CubeMX")

\* Path.home()
HomeDir == PurePath(<<"/", "home", "/", "user">>)

WinProgramFiles(dir) ==
    PurePath(<<"C:", "/", dir, "/", "STMicroelectronics", "/", "STM32Cube", "/",
               "STM32CubeMX", "/", "STM32CubeMX.exe">>)

\* the conventional install locations of the platform, in list order, with
\* `appdata` for os.environ.get('LOCALAPPDATA', '')
CommonWith(appdata) ==
    IF my_os = "Windows" THEN
        << WinProgramFiles("Program Files"),
           WinProgramFiles("Program Files (x86)"),
           PurePath(<<"C:", "/", "Program Files", "/", "STMicroelectronics", "/",
                      "STM32CubeMX", "/", "STM32CubeMX.exe">>),
           Join(Join(Join(PurePath(appdata), <<"Programs">>),
                     <<"STM32CubeMX">>), <<"STM32CubeMX.exe">>) >>
    ELSE IF my_os = "Darwin" THEN
        << PurePath(<<"/", "Applications", "/", "STMicroelectronics", "/",
                      "STM32CubeMX.app", "/", "Contents", "/", "MacOS", "/",
                      "STM32CubeMX">>) >>
    ELSE IF my_os = "Linux" THEN
        << Join(Join(HomeDir, <<"STM32CubeMX">>), <<"STM32CubeMX">>),
           PurePath(<<"/", "usr", "/", "local", "/", "bin", "/", "STM32CubeMX">>),
           PurePath(<<"/", "usr", "/", "bin", "/", "STM32CubeMX">>) >>
    ELSE <<>>

common == CommonWith(GetenvOr("LOCALAPPDATA", <<>>))

\* for p in common: try: if p and p.exists(): return str(p) / except: continue
RECURSIVE CommonStage(_, _)
CommonStage(paths, j) ==
    IF j > Len(paths) THEN NoResult
    ELSE IF Denied(paths[j]) THEN CommonStage(paths, j + 1)
    ELSE IF Exists(paths[j]) THEN Returned(Str(paths[j]))
    ELSE CommonStage(paths, j + 1)

\* the locator with the PATH lookup ahead of the environment variables
find_cubemx_executable_PathFirst ==
    IF Truthy(which_path) THEN Returned(which_path)
    ELSE LET e == EnvStage(1)
         IN  IF e.kind # "none" THEN e
             ELSE LET c == CommonStage(common, 1)
                  IN  IF c.kind # "none" THEN c ELSE Returned(<<>>)

find_cubemx_executable ==
    LET e == EnvStage(1)
    IN  IF e.kind # "none" THEN e
        ELSE IF Truthy(which_path) THEN Returned(which_path)
        ELSE LET c == CommonStage(common, 1)
             IN  IF c.kind # "none" THEN c ELSE Returned(<<>>)

-----------------------------------------------------------------------------
(* _find_java_bundled_with_cubemx *)

java_name == IF my_os = "Windows" THEN <<"java.exe">> ELSE <<"java">>

JreBin(dir, name) == Join(Join(Join(dir, <<"jre">>), <<"bin">>), name)

\* install_dir = p.parent; the three candidates, in list order
JavaCandidates(cubemx_path) ==
    LET p           == PurePath(cubemx_path)
        install_dir == Parent(p)
    IN  << JreBin(install_dir, java_name),
           JreBin(Parent(install_dir), java_name),
           JreBin(Parent(p), <<"java">>) >>

\* JavaHit without the os.access test
JavaHit_ExistsOnly(c) == ~Denied(c) /\ Exists(c)

\* try: if c.exists() and os.access(str(c), os.X_OK): return str(c) / except: continue
JavaHit(c) == ~Denied(c) /\ Exists(c) /\ AccessX(c)

RECURSIVE FirstJava(_, _)
FirstJava(cands, j) ==
    IF j > Len(cands) THEN Returned(<<>>)
    ELSE IF JavaHit(cands[j]) THEN Returned(Str(cands[j]))
    ELSE FirstJava(cands, j + 1)

find_java_bundled_with_cubemx(cubemx_path) ==
    IF ~Truthy(cubemx_path) THEN Returned(<<>>)
    ELSE FirstJava(JavaCandidates(cubemx_path), 1)

\* the candidates the loop has called exists() on when it returns
RECURSIVE ProbedUpTo(_, _)
ProbedUpTo(cands, j) ==
    IF j > Len(cands) THEN <<>>
    ELSE IF JavaHit(cands[j]) THEN <<cands[j]>>
    ELSE <<cands[j]>> \o ProbedUpTo(cands, j + 1)

JavaProbes(cubemx_path) ==
    IF ~Truthy(cubemx_path) THEN <<>>
    ELSE ProbedUpTo(JavaCandidates(cubemx_path), 1)

-----------------------------------------------------------------------------
(* the module body: lines 118-207 *)

\* the fallback of lines 124-128
cubemx_fallback ==
    IF my_os = "Darwin" THEN
        <<"/", "Applications", "/", "STMicroelectronics", "/", "STM32CubeMX.app", "/",
          "Contents", "/", "MacOs", "/", "STM32CubeMX">>
    ELSE IF my_os = "Linux" THEN
        Str(Join(HomeDir, <<"STM32CubeMX", "/", "STM32CubeMX">>))
    ELSE IF my_os = "Windows" THEN
        <<"C:", "/", "Program Files", "/", "STMicroelectronics", "/", "STM32Cube", "/",
          "STM32CubeMX", "/", "STM32CubeMX.exe">>
    ELSE <<>>

\* (variant: the sentinel on every platform)
java_fallback_SentinelEverywhere == <<"None">>

\* the fallback of lines 132-134
java_fallback ==
    IF my_os = "Windows" THEN
        <<"C:", "/", "Program Files", "/", "STMicroelectronics", "/", "STM32Cube", "/",
          "STM32CubeMX", "/", "jre", "/", "bin", "/", "java.exe">>
    ELSE <<"None">>

\* inspect.cleandoc of the two templates
cubemx_script_template ==
    <<"config load ${ioc_file_absolute_path}", "\n",
      "generate code ${project_dir_absolute_path}", "\n", "exit">>

platformio_ini_patch_template ==
    <<"[platformio]", "\n", "include_dir = Inc", "\n", "src_dir = Src">>

\* (variant: a project section already built is kept, not built anew)
BuildConfig_KeepsProject(cubemx, java) ==
    [app |-> [platformio_cmd |-> <<"platformio">>,
              cubemx_cmd |-> cubemx,
              java_cmd |-> java],
     project |-> IF config_default = [unbuilt |-> TRUE]
                 THEN [cubemx_script_content |-> cubemx_script_template,
                       platformio_ini_patch_content |-> platformio_ini_patch_template,
                       board |-> <<>>,
                       ioc_file |-> <<>>,
                       cleanup_ignore |-> <<>>,
                       cleanup_use_git |-> FALSE,
                       inspect_ioc |-> TRUE]
                 ELSE config_default.project]

\* config_default = dict(app={...}, project={...})
BuildConfig(cubemx, java) ==
    [app |-> [platformio_cmd |-> <<"platformio">>,
              cubemx_cmd |-> cubemx,
              java_cmd |-> java],
     project |-> [cubemx_script_content |-> cubemx_script_template,
                  platformio_ini_patch_content |-> platformio_ini_patch_template,
                  board |-> <<>>,
                  ioc_file |-> <<>>,
                  cleanup_ignore |-> <<>>,
                  cleanup_use_git |-> FALSE,
                  inspect_ioc |-> TRUE]]

\* the constants of lines 118 and 191-207 (pio_boards_cache_lifetime, 5.0 s, in seconds;
\* show_traceback_threshold_level is logging.DEBUG)
ModuleConstants ==
    [config_file_name |-> <<"stm32pio.ini">>,
     none_options |-> <<"none", "no", "null", "0">>,
     no_options |-> <<"n", "no", "false", "0">>,
     yes_options |-> <<"y", "yes", "true", "1">>,
     cubemx_str_indicating_success |-> <<"Code succesfully generated">>,
     cubemx_str_indicating_error |-> <<"Exception in code generation">>,
     log_fieldwidth_function |-> 20,
     show_traceback_threshold_level |-> 10,
     pio_boards_cache_lifetime |-> 5]

-----------------------------------------------------------------------------
(* the continuous-integration block: lines 216-234 *)

\* Path(__file__).parent / '../../tests/fixtures'
DefaultFixtures ==
    Join(PurePath(<<"/", "site", "/", "stm32pio", "/", "core">>),
         <<"..", "/", "..", "/", "tests", "/", "fixtures">>)

\* TEST_FIXTURES_PATH: Path() of the variable, or of the default path
TEST_FIXTURES_PATH ==
    IF "STM32PIO_TEST_FIXTURES" \in DOMAIN environ
    THEN PurePath(environ["STM32PIO_TEST_FIXTURES"])
    ELSE DefaultFixtures

TEST_CASE == Getenv("STM32PIO_TEST_CASE")

platformio_ini_lockfile ==
    Join(Join(TEST_FIXTURES_PATH, TEST_CASE), <<"platformio.ini.lockfile">>)

\* Path.read_text()
ReadText(p) == IF p \in DOMAIN file_text THEN file_text[p] ELSE <<>>

\* (variant: the app section gains a key)
CIApp_ExtraKey ==
    [platformio_cmd |-> <<"platformio">>,
     cubemx_cmd |-> Str(Join(PurePath(Getenv("STM32PIO_CUBEMX_CACHE_FOLDER")),
                             <<"STM32CubeMX.exe">>)),
     java_cmd |-> <<"java">>,
     ci |-> TRUE]

\* the app section of lines 220-224
CIApp ==
    [platformio_cmd |-> <<"platformio">>,
     cubemx_cmd |-> Str(Join(PurePath(Getenv("STM32PIO_CUBEMX_CACHE_FOLDER")),
                             <<"STM32CubeMX.exe">>)),
     java_cmd |-> <<"java">>]

\* (variant: the lock-file text is appended without the blank line)
patch_mixin_NoSeparator ==
    IF TEST_CASE # NoneVal /\ Exists(platformio_ini_lockfile)
    THEN ReadText(platformio_ini_lockfile)
    ELSE <<>>

\* patch_mixin of lines 229-233, when nothing raises
patch_mixin ==
    IF TEST_CASE # NoneVal /\ Exists(platformio_ini_lockfile)
    THEN <<"\n", "\n">> \o ReadText(platformio_ini_lockfile)
    ELSE <<>>

\* (variant: the block is entered only when the marker has a non-empty value)
CIBlock_ByValue(cfg) ==
    IF ~Truthy(Getenv("PIPELINE_WORKSPACE"))
    THEN [exc |-> "", cfg |-> cfg]
    ELSE IF Getenv("STM32PIO_CUBEMX_CACHE_FOLDER") = NoneVal
         THEN [exc |-> "TypeError", cfg |-> cfg]
    ELSE [exc |-> "",
          cfg |-> [cfg EXCEPT !.app = CIApp,
                              !.project.platformio_ini_patch_content = @ \o patch_mixin]]

\* opening a directory for reading
OpenDirError == IF IsWin THEN "PermissionError" ELSE "IsADirectoryError"

\* The block as one step: [exc, cfg] is the exception that ends it ("" if none)
\* and config_default as the block leaves it.
CIBlock(cfg) ==
    IF Getenv("PIPELINE_WORKSPACE") = NoneVal THEN [exc |-> "", cfg |-> cfg]
    ELSE IF Getenv("STM32PIO_CUBEMX_CACHE_FOLDER") = NoneVal
         THEN [exc |-> "TypeError", cfg |-> cfg]
    ELSE LET withApp == [cfg EXCEPT !.app = CIApp]
         IN  IF TEST_CASE # NoneVal /\ Denied(platformio_ini_lockfile)
             THEN [exc |-> "PermissionError", cfg |-> withApp]
             ELSE IF TEST_CASE # NoneVal /\ IsDir(platformio_ini_lockfile)
             THEN [exc |-> OpenDirError, cfg |-> withApp]
             ELSE [exc |-> "",
                   cfg |-> [withApp EXCEPT !.project.platformio_ini_patch_content =
                                               @ \o patch_mixin]]

-----------------------------------------------------------------------------
(* the inputs: platforms, environments and filesystems the model draws from *)

MaxSetVars == 2   \* at most this many of the six locator variables are set
MaxLoads == 2     \* the module body is run at most this many times

Platforms == {"Windows", "Darwin", "Linux", "FreeBSD"}

NotBuilt == [unbuilt |-> TRUE]

\* values a locator variable is set to: empty, a directory, a file elsewhere
\* named with a doubled separator
InstallDir == <<"/", "opt", "/", "cubemx">>
OtherFile == <<"/", "opt", "/", "st", "/", "/", "STM32CubeMX.exe">>
LocatorValues == { <<>>, InstallDir, OtherFile }

\* every function from a subset of `names` of at most n elements to `values`
PartialFns(names, n, values) ==
    UNION { [S -> values] : S \in {T \in SUBSET names : Cardinality(T) <= n} }

Range(f) == {f[i] : i \in DOMAIN f}

LocatorEnvs == PartialFns(Range(env_vars), MaxSetVars, LocatorValues)

\* LOCALAPPDATA: unset, or (on Windows, where it is read) set
AppDataValue == <<"C:", "\\", "Users", "\\", "u", "\\", "AppData", "\\", "Local">>
AppDataEnvs ==
    IF IsWin THEN { <<>>, "LOCALAPPDATA" :> AppDataValue } ELSE { <<>> }

\* the locator variables; LOCALAPPDATA is set only while none of them is
LocatorEnvsWith(a) == IF a = <<>> THEN LocatorEnvs ELSE { a }

\* The install directory is missing, a file, unreadable, or a directory; in a
\* directory the first candidate is missing, present or unreadable, and the
\* candidates behind a missing or present one are missing or present (the
\* bundle candidate only behind a missing first one).  The other file is
\* missing, or present beside an install directory that is missing or holds
\* at most one candidate.
InstallTrees ==
    LET d == PurePath(InstallDir)
        c == Candidates(d)
        f == PurePath(OtherFile)
        none == (d :> "dir") @@ [x \in Range(c) |-> "missing"]
        one(j) == (c[j] :> "file") @@ none
    IN  { d :> "missing", d :> "file", d :> "denied", none, one(1), one(2), one(3),
          (c[3] :> "file") @@ one(2), (c[2] :> "file") @@ one(1),
          (c[1] :> "denied") @@ none }
        \cup { (f :> "file") @@ t : t \in { d :> "missing", none, one(1), one(2) } }

\* the conventional locations cs: none present, one present, the first two
\* present, or the first unreadable and at most one other present
CommonTrees(cs) ==
    IF cs = <<>> THEN { <<>> }
    ELSE LET first  == cs[1]
             others == Range(cs) \ {first}
         IN  { <<>>, first :> "denied" }
             \cup { p :> "file" : p \in Range(cs) }
             \cup { (first :> "file") @@ (cs[i] :> "file") : i \in {2} \cap DOMAIN cs }
             \cup { (first :> "denied") @@ (p :> "file") : p \in others }

\* what shutil.which finds: nothing, or a file in a directory of PATH
WhichDir == IF IsWin THEN <<"C:", "\\", "tools", "\\">> ELSE <<"/", "opt", "/", "bin", "/">>
WhichNames == IF IsWin THEN {"STM32CubeMX.exe", "STM32CubeMX"} ELSE {"STM32CubeMX"}
NoHit == [n \in WhichNames |-> NoneVal]
WhichHits ==
    { [n \in WhichNames |-> IF n \in S THEN WhichDir \o <<n>> ELSE NoneVal] :
        S \in SUBSET WhichNames }

\* PATH and the conventional locations cs together: a PATH hit comes with no
\* conventional location present or with the first one only
LaterStages(cs) ==
    { [which |-> NoHit, tree |-> c] : c \in CommonTrees(cs) }
    \cup { [which |-> w, tree |-> c] :
             w \in WhichHits \ {NoHit},
             c \in { <<>> } \cup { cs[i] :> "file" : i \in {1} \cap DOMAIN cs } }

-----------------------------------------------------------------------------
(* _find_cubemx_executable called on its own *)

InitFind ==
    /\ my_os \in Platforms
    /\ \E a \in AppDataEnvs :
          \E l \in LaterStages(CommonWith(IF a = <<>> THEN <<>> ELSE AppDataValue)),
             t \in InstallTrees :
                /\ which_hit = l.which
                /\ fs = t @@ l.tree
                /\ environ \in LocatorEnvsWith(a)
    /\ file_text = <<>>
    /\ pc = "call_find"
    /\ ret = NoResult
    /\ arg = <<>>
    /\ probes = <<>>
    /\ detected_cubemx = <<>>
    /\ detected_java = <<>>
    /\ config_default = NotBuilt
    /\ module_consts = NotBuilt
    /\ exc = ""
    /\ loads = 0
    /\ first_config = NotBuilt

CallFind ==
    /\ pc = "call_find"
    /\ ret' = find_cubemx_executable
    /\ pc' = IF ret'.kind = "raise" THEN "raised" ELSE "returned"
    /\ UNCHANGED <<my_os, environ, which_hit, fs, file_text, arg, probes,
                   detected_cubemx, detected_java, config_default, module_consts,
                   exc, loads, first_config>>

NextFind == CallFind

SpecFind == InitFind /\ [][NextFind]_vars

-----------------------------------------------------------------------------
(* _find_java_bundled_with_cubemx called on its own *)

\* arguments: empty, a bare name, a file under the root, an installed
\* executable, the executable inside a macOS bundle
JavaArgs ==
    { <<>>,
      <<"STM32CubeMX">>,
      <<"/", "STM32CubeMX">>,
      InstallDir \o <<"/", "STM32CubeMX">>,
      <<"/", "Applications", "/", "STM32CubeMX.app", "/", "Contents", "/", "MacOS", "/",
        "STM32CubeMX">> }

InitJava ==
    /\ my_os \in Platforms
    /\ arg \in JavaArgs
    /\ environ = <<>>
    /\ which_hit = <<>>
    /\ fs \in [Range(JavaCandidates(arg)) -> {"missing", "file", "xfile", "dir", "denied"}]
    /\ file_text = <<>>
    /\ pc = "call_java"
    /\ ret = NoResult
    /\ probes = <<>>
    /\ detected_cubemx = <<>>
    /\ detected_java = <<>>
    /\ config_default = NotBuilt
    /\ module_consts = NotBuilt
    /\ exc = ""
    /\ loads = 0
    /\ first_config = NotBuilt

CallJava ==
    /\ pc = "call_java"
    /\ ret' = find_java_bundled_with_cubemx(arg)
    /\ probes' = JavaProbes(arg)
    /\ pc' = "returned"
    /\ UNCHANGED <<my_os, environ, which_hit, fs, file_text, arg,
                   detected_cubemx, detected_java, config_default, module_consts,
                   exc, loads, first_config>>

NextJava == CallJava

SpecJava == InitJava /\ [][NextJava]_vars

-----------------------------------------------------------------------------
(* loading the module *)

\* lines 121-128
DetectCubemx ==
    /\ pc = "start"
    /\ LET r == find_cubemx_executable
       IN  IF r.kind = "raise"
           THEN /\ pc' = "failed"
                /\ exc' = r.val[1]
                /\ UNCHANGED detected_cubemx
           ELSE /\ pc' = "java"
                /\ detected_cubemx' = IF Truthy(r.val) THEN r.val ELSE cubemx_fallback
                /\ UNCHANGED exc
    /\ UNCHANGED <<my_os, environ, which_hit, fs, file_text, ret, arg, probes,
                   detected_java, config_default, module_consts, loads, first_config>>

\* lines 130-134
DetectJava ==
    /\ pc = "java"
    /\ LET r == find_java_bundled_with_cubemx(detected_cubemx)
       IN  detected_java' = IF Truthy(r.val) THEN r.val ELSE java_fallback
    /\ probes' = JavaProbes(detected_cubemx)
    /\ pc' = "build"
    /\ UNCHANGED <<my_os, environ, which_hit, fs, file_text, ret, arg,
                   detected_cubemx, config_default, module_consts, exc, loads,
                   first_config>>

\* lines 136-207
BuildDefaults ==
    /\ pc = "build"
    /\ config_default' = BuildConfig(detected_cubemx, detected_java)
    /\ module_consts' = ModuleConstants
    /\ pc' = "ci"
    /\ UNCHANGED <<my_os, environ, which_hit, fs, file_text, ret, arg, probes,
                   detected_cubemx, detected_java, exc, loads, first_config>>

\* lines 216-234
CIOverride ==
    /\ pc = "ci"
    /\ LET b == CIBlock(config_default)
       IN  /\ config_default' = b.cfg
           /\ exc' = b.exc
           /\ pc' = IF b.exc = "" THEN "done" ELSE "failed"
           /\ loads' = IF b.exc = "" THEN loads + 1 ELSE loads
           /\ first_config' = IF b.exc = "" /\ loads = 0 THEN b.cfg ELSE first_config
    /\ UNCHANGED <<my_os, environ, which_hit, fs, file_text, ret, arg, probes,
                   detected_cubemx, detected_java, module_consts>>

\* the module body is run again (a new process, or importlib.reload) with the
\* platform, the environment and the filesystem as they are
Reload ==
    /\ pc = "done"
    /\ loads < MaxLoads
    /\ pc' = "start"
    /\ UNCHANGED <<my_os, environ, which_hit, fs, file_text, ret, arg, probes,
                   detected_cubemx, detected_java, config_default, module_consts,
                   exc, loads, first_config>>

\* locator inputs of a load: the first variable unset, or naming the install
\* directory (missing, unreadable, or holding the executable)
LoadLocatorInputs ==
    LET d == PurePath(InstallDir)
    IN  { [env |-> <<>>, tree |-> <<>>] }
        \cup { [env |-> (env_vars[1] :> InstallDir), tree |-> t] :
                 t \in { d :> "missing", d :> "denied",
                         (d :> "dir") @@ (Candidates(d)[1] :> "xfile") } }

\* the first conventional location is missing or present
LoadCommonTrees ==
    LET cs == CommonWith(<<>>)
    IN  IF cs = <<>> THEN { <<>> }
        ELSE { cs[1] :> k : k \in {"missing", "xfile"} }

\* shutil.which finds nothing, or the executable under its platform name
LoadWhichHits == { w \in WhichHits : \A n \in DOMAIN w : n # exec_name => w[n] = NoneVal }

\* what the locator can return on these inputs, and the fallback
LoadDetectable ==
    { cubemx_fallback, Str(Candidates(PurePath(InstallDir))[1]) }
    \cup { Str(p) : p \in UNION { DOMAIN c : c \in LoadCommonTrees } }
    \cup UNION { Range(w) \ {NoneVal} : w \in LoadWhichHits }

\* at most one companion-runtime candidate of those paths is present
LoadJavaTrees ==
    { <<>> }
    \cup { p :> k : p \in UNION { Range(JavaCandidates(c)) : c \in LoadDetectable \ {<<>>} },
                    k \in {"file", "xfile", "denied"} }

\* the CI variables: none when the marker is unset
CacheValues == { <<"/", "cache">>, <<"/", "cache", "/">> }
FixturesValue == <<"/", "fx">>
CaseValue == <<"case1">>
LockTexts == { <<>>, <<"[env:nucleo]", "\n", "platform = ststm32@1.0">> }

\* the lock file the block looks for, given the two variables
LockFileOf(f, t) ==
    Join(Join(IF f = <<>> THEN DefaultFixtures ELSE PurePath(FixturesValue), CaseValue),
         <<"platformio.ini.lockfile">>)

\* the lock file is missing, a directory, unreadable, or a file with a text
LockStates(p) ==
    { [tree |-> <<>>, text |-> <<>>] }
    \cup { [tree |-> (p :> k), text |-> <<>>] : k \in {"dir", "denied"} }
    \cup { [tree |-> (p :> "file"), text |-> (p :> x)] : x \in LockTexts }

\* the marker unset and with it the other CI variables; or the marker set
\* (empty or not), the cache folder set or not, and either no test case, or a
\* test case with or without a fixtures root and a lock file in some state
CIInputs ==
    { [env |-> <<>>, tree |-> <<>>, text |-> <<>>] }
    \cup { [env |-> ("PIPELINE_WORKSPACE" :> m) @@ c, tree |-> <<>>, text |-> <<>>] :
             m \in { <<>>, <<"/", "ws">> },
             c \in PartialFns({"STM32PIO_CUBEMX_CACHE_FOLDER"}, 1, CacheValues) }
    \cup UNION { { [env |-> ("PIPELINE_WORKSPACE" :> m) @@ c @@ f
                             @@ ("STM32PIO_TEST_CASE" :> CaseValue),
                     tree |-> l.tree, text |-> l.text] :
                       m \in { <<>>, <<"/", "ws">> },
                       c \in PartialFns({"STM32PIO_CUBEMX_CACHE_FOLDER"}, 1, CacheValues),
                       l \in LockStates(LockFileOf(f, CaseValue)) } :
                   f \in PartialFns({"STM32PIO_TEST_FIXTURES"}, 1, {FixturesValue}) }

Init ==
    /\ my_os \in Platforms
    /\ which_hit \in LoadWhichHits
    /\ \E l \in LoadLocatorInputs, ci \in CIInputs :
          /\ environ = l.env @@ ci.env
          /\ \E c \in LoadCommonTrees, j \in LoadJavaTrees :
                fs = l.tree @@ c @@ j @@ ci.tree
          /\ file_text = ci.text
    /\ pc = "start"
    /\ ret = NoResult
    /\ arg = <<>>
    /\ probes = <<>>
    /\ detected_cubemx = <<>>
    /\ detected_java = <<>>
    /\ config_default = NotBuilt
    /\ module_consts = NotBuilt
    /\ exc = ""
    /\ loads = 0
    /\ first_config = NotBuilt

Next == DetectCubemx \/ DetectJava \/ BuildDefaults \/ CIOverride \/ Reload

Spec == Init /\ [][Next]_vars

-----------------------------------------------------------------------------
(* the locator's contract, stated on the inputs *)

VarValue(i) == Getenv(env_vars[i])
VarPath(i) == PurePath(VarValue(i))

\* the i-th variable is set to a path that exists and is not a directory
NamesFile(i) == Truthy(VarValue(i)) /\ Stat(VarPath(i)) \in {"file", "xfile"}

\* the i-th variable is set to a path that is a directory
NamesDir(i) == Truthy(VarValue(i)) /\ Stat(VarPath(i)) = "dir"

\* the candidate file names, in the order they are tried
CandidateNames ==
    << <<"STM32CubeMX">>,
       <<"STM32CubeMX.exe">>,
       <<"STM32CubeMX.app", "/", "Contents", "/", "MacOS", "/", "STM32CubeMX">> >>

\* the candidates of directory p that exist, by their place in the order
PresentIn(p) == { j \in DOMAIN CandidateNames : Exists(Join(p, CandidateNames[j])) }

Least(S) == CHOOSE m \in S : \A n \in S : m <= n

\* the i-th variable is unset or empty, or every probe made for it answers "no"
VarSkipped(i) ==
    \/ ~Truthy(VarValue(i))
    \/ Stat(VarPath(i)) = "missing"
    \/ /\ Stat(VarPath(i)) = "dir"
       /\ \A j \in DOMAIN CandidateNames :
             Stat(Join(VarPath(i), CandidateNames[j])) = "missing"

\* C1 as claimed: whenever the locator returns, any variable naming an existing
\* file is returned as the very string it was set to.
C1_AnyFileVariableReturnedVerbatim ==
    pc = "returned" =>
        \A i \in DOMAIN env_vars : NamesFile(i) => ret = Returned(VarValue(i))

\* C1: if a variable names an existing file and every variable before it in
\* list order is skipped (unset, empty, a path reported missing, a directory
\* whose candidates are all reported missing), the locator returns
\* str(Path(value)), the value in the platform's normal form, whatever PATH and
\* the conventional locations hold.
C1_FirstFileVariableReturnedNormalised ==
    pc # "call_find" =>
        \A i \in DOMAIN env_vars :
            (NamesFile(i) /\ \A k \in 1..(i - 1) : VarSkipped(k))
                => ret = Returned(Str(VarPath(i)))

\* a later variable names a file under a non-normal spelling, an earlier one
\* is set and skipped, PATH and a conventional location have a hit too
C1_Witness ==
    /\ pc = "returned"
    /\ \E i \in 2..Len(env_vars) :
          /\ NamesFile(i)
          /\ \A k \in 1..(i - 1) : VarSkipped(k)
          /\ \E k \in 1..(i - 1) : env_vars[k] \in DOMAIN environ
          /\ ret = Returned(Str(VarPath(i)))
          /\ ret.val # VarValue(i)
    /\ Truthy(which_path)
    /\ \E j \in DOMAIN common : Exists(common[j])

\* C2 as claimed: whenever the locator returns, any variable naming a directory
\* with exactly one existing candidate makes that candidate's path the result.
C2_AnyDirVariableYieldsItsCandidate ==
    pc = "returned" =>
        \A i \in DOMAIN env_vars :
            (NamesDir(i) /\ Cardinality(PresentIn(VarPath(i))) = 1)
                => \A j \in PresentIn(VarPath(i)) :
                      ret = Returned(Str(Join(VarPath(i), CandidateNames[j])))

\* C2: if a variable names a directory in which exactly one candidate exists
\* and the other two are reported missing, and every variable before it in
\* list order is skipped, the locator returns the directory joined with that
\* candidate name.
C2_FirstDirVariableYieldsItsCandidate ==
    pc # "call_find" =>
        \A i \in DOMAIN env_vars :
            ( /\ NamesDir(i)
              /\ Cardinality(PresentIn(VarPath(i))) = 1
              /\ \A j \in DOMAIN CandidateNames \ PresentIn(VarPath(i)) :
                    Stat(Join(VarPath(i), CandidateNames[j])) = "missing"
              /\ \A k \in 1..(i - 1) : VarSkipped(k) )
                => \A j \in PresentIn(VarPath(i)) :
                      ret = Returned(Str(Join(VarPath(i), CandidateNames[j])))

\* the only candidate present is not the first of the list, and the result is it
C2_Witness ==
    /\ pc = "returned"
    /\ \E i \in DOMAIN env_vars :
          /\ NamesDir(i)
          /\ \A k \in 1..(i - 1) : VarSkipped(k)
          /\ \E j \in 2..Len(CandidateNames) :
                /\ PresentIn(VarPath(i)) = {j}
                /\ ret = Returned(Str(Join(VarPath(i), CandidateNames[j])))

\* what the i-th variable yields, if anything
VarYields(i) == NamesFile(i) \/ (NamesDir(i) /\ PresentIn(VarPath(i)) # {})
VarYield(i) ==
    IF NamesFile(i) THEN Str(VarPath(i))
    ELSE Str(Join(VarPath(i), CandidateNames[Least(PresentIn(VarPath(i)))]))

\* the first match of the probe sequence: variables, PATH under the platform
\* name then the generic name, conventional locations, else the empty string
FirstMatch ==
    LET yielding == { i \in DOMAIN env_vars : VarYields(i) }
        present  == { j \in DOMAIN common : Exists(common[j]) }
        osName   == IF my_os = "Windows" THEN "STM32CubeMX.exe" ELSE "STM32CubeMX"
    IN  IF yielding # {} THEN VarYield(Least(yielding))
        ELSE IF Truthy(Which(osName)) THEN Which(osName)
        ELSE IF Truthy(Which("STM32CubeMX")) THEN Which("STM32CubeMX")
        ELSE IF present # {} THEN Str(common[Least(present)])
        ELSE <<>>

\* C3: whenever the locator returns, its result is the first match of the
\* probe sequence; a variable that is unset, empty, names a missing path or a
\* directory without candidates is passed over, and no later stage overrides
\* an earlier hit.
C3_ResultIsFirstMatch ==
    pc = "returned" => ret.val = FirstMatch

\* a variable is passed over, a later one yields, and both PATH names and a
\* conventional location have hits that do not override it
C3_Witness ==
    /\ pc = "returned"
    /\ \E i \in 2..Len(env_vars) :
          /\ VarYields(i)
          /\ \E k \in 1..(i - 1) : Truthy(VarValue(k)) /\ VarSkipped(k)
          /\ ret.val = VarYield(i)
    /\ Truthy(which_path)
    /\ ret.val # which_path
    /\ \E j \in DOMAIN common : Exists(common[j]) /\ ret.val # Str(common[j])

\* later stages decide: PATH under the generic name only, and a conventional
\* location that is not the first of the list
C3_WitnessLaterStages ==
    /\ pc = "returned"
    /\ \E k \in DOMAIN env_vars : Truthy(VarValue(k))
    /\ \/ /\ ~Truthy(Which(exec_name))
          /\ Truthy(Which("STM32CubeMX"))
          /\ ret.val = Which("STM32CubeMX")
       \/ /\ ~Truthy(which_path)
          /\ \E j \in 2..Len(common) : Exists(common[j]) /\ ret.val = Str(common[j])

-----------------------------------------------------------------------------
(* the companion-runtime locator's contract *)

\* the candidates of the argument that exist and may be executed
UsableJava(cubemx_path) ==
    { j \in DOMAIN JavaCandidates(cubemx_path) :
        Stat(JavaCandidates(cubemx_path)[j]) \in {"xfile", "dir"} }

\* C7: the companion-runtime locator returns the empty string exactly when its
\* argument is empty or no candidate both exists and is executable; for an
\* empty argument it probes nothing; otherwise it returns the first candidate
\* in list order that exists and is executable.
C7_JavaIsFirstUsableCandidate ==
    pc = "returned" =>
        /\ ret.kind = "return"
        /\ (ret.val = <<>>) <=> (arg = <<>> \/ UsableJava(arg) = {})
        /\ arg = <<>> => probes = <<>>
        /\ (arg # <<>> /\ UsableJava(arg) # {})
              => /\ ret.val = Str(JavaCandidates(arg)[Least(UsableJava(arg))])
                 /\ Stat(PurePath(ret.val)) \in {"xfile", "dir"}

\* the first candidate exists without execute permission, the second is
\* usable and is the result
C7_Witness ==
    /\ pc = "returned"
    /\ arg # <<>>
    /\ Stat(JavaCandidates(arg)[1]) = "file"
    /\ Stat(JavaCandidates(arg)[2]) = "xfile"
    /\ ret.val = Str(JavaCandidates(arg)[2])
    /\ Len(probes) = 2

-----------------------------------------------------------------------------
(* the contract of a load *)

CIMarkerPresent == "PIPELINE_WORKSPACE" \in DOMAIN environ

\* the per-platform literal of the executable
FallbackLiteral ==
    IF my_os = "Darwin" THEN
        <<"/", "Applications", "/", "STMicroelectronics", "/", "STM32CubeMX.app",
          "/", "Contents", "/", "MacOs", "/", "STM32CubeMX">>
    ELSE IF my_os = "Linux" THEN
        <<"/", "home", "/", "user", "/", "STM32CubeMX", "/", "STM32CubeMX">>
    ELSE IF my_os = "Windows" THEN
        <<"C:", "/", "Program Files", "/", "STMicroelectronics", "/", "STM32Cube",
          "/", "STM32CubeMX", "/", "STM32CubeMX.exe">>
    ELSE <<>>

\* what the two locators and the fallbacks give on the inputs of this load
ExpectedCubemx ==
    LET r == find_cubemx_executable
    IN  IF r.val # <<>> THEN r.val ELSE FallbackLiteral

WindowsJava ==
    <<"C:", "/", "Program Files", "/", "STMicroelectronics", "/", "STM32Cube", "/",
      "STM32CubeMX", "/", "jre", "/", "bin", "/", "java.exe">>

ExpectedJava ==
    LET r == find_java_bundled_with_cubemx(ExpectedCubemx)
    IN  IF r.val # <<>> THEN r.val
        ELSE IF my_os = "Windows" THEN WindowsJava ELSE <<"None">>

\* C4 as claimed: a load never ends in an exception.
C4_LoadNeverRaises == pc # "failed" /\ exc = ""

\* the folder and the file name with one "/" between them
SlashJoined(folder) ==
    IF folder # <<>> /\ folder[Len(folder)] = "/"
    THEN folder \o <<"STM32CubeMX.exe">>
    ELSE folder \o <<"/", "STM32CubeMX.exe">>

\* C5 as claimed: after a load, without the marker the app section holds the
\* detected-or-fallback commands; with the marker (whatever its value) it is
\* platformio, <cache folder>/STM32CubeMX.exe, java.
C5_AppIsSlashJoinedCachePath ==
    pc = "done" =>
        /\ ~CIMarkerPresent =>
              config_default.app = [platformio_cmd |-> <<"platformio">>,
                                    cubemx_cmd |-> ExpectedCubemx,
                                    java_cmd |-> ExpectedJava]
        /\ CIMarkerPresent =>
              config_default.app =
                  [platformio_cmd |-> <<"platformio">>,
                   cubemx_cmd |-> SlashJoined(Getenv("STM32PIO_CUBEMX_CACHE_FOLDER")),
                   java_cmd |-> <<"java">>]

\* the cache folder and the file name joined as the platform's pathlib does:
\* for the folder "/cache" (with or without a trailing separator)
PlatformJoined(folder) ==
    IF folder \in { <<"/", "cache">>, <<"/", "cache", "/">> }
    THEN IF my_os = "Windows" THEN <<"\\", "cache", "\\", "STM32CubeMX.exe">>
                              ELSE <<"/", "cache", "/", "STM32CubeMX.exe">>
    ELSE Str(Join(PurePath(folder), <<"STM32CubeMX.exe">>))

\* C5: after a load, without the marker the app section holds the
\* detected-or-fallback commands; with the marker, empty or not, it is
\* platformio, str(Path(cache folder) / 'STM32CubeMX.exe') in the platform's
\* spelling ('/cache/STM32CubeMX.exe' on POSIX, '\cache\STM32CubeMX.exe' on
\* Windows), java, whatever the locators found.
C5_AppIsPlatformJoinedCachePath ==
    pc = "done" =>
        /\ ~CIMarkerPresent =>
              config_default.app = [platformio_cmd |-> <<"platformio">>,
                                    cubemx_cmd |-> ExpectedCubemx,
                                    java_cmd |-> ExpectedJava]
        /\ CIMarkerPresent =>
              config_default.app =
                  [platformio_cmd |-> <<"platformio">>,
                   cubemx_cmd |-> PlatformJoined(Getenv("STM32PIO_CUBEMX_CACHE_FOLDER")),
                   java_cmd |-> <<"java">>]

\* a load with the marker set to the empty string, on Windows, while the
\* locator found an executable through the first variable
C5_Witness ==
    /\ pc = "done"
    /\ CIMarkerPresent
    /\ environ["PIPELINE_WORKSPACE"] = <<>>
    /\ my_os = "Windows"
    /\ detected_cubemx = Str(Candidates(PurePath(InstallDir))[1])
    /\ config_default.app.cubemx_cmd = <<"\\", "cache", "\\", "STM32CubeMX.exe">>
    /\ config_default.app.java_cmd = <<"java">>

\* nothing to find: no locator variable set, nothing on PATH, no conventional
\* location present, no CI marker
NothingToFind ==
    /\ \A i \in DOMAIN env_vars : VarValue(i) = NoneVal
    /\ \A n \in DOMAIN which_hit : which_hit[n] = NoneVal
    /\ \A j \in DOMAIN common : Stat(common[j]) = "missing"
    /\ ~CIMarkerPresent

JavaSentinel == IF my_os = "Windows" THEN WindowsJava ELSE <<"None">>

\* C6 as claimed: with nothing to find, after a load the executable is the
\* per-platform literal and the runtime is its fallback value.
C6_NothingFoundGivesBothFallbacks ==
    (pc = "done" /\ NothingToFind) =>
        /\ config_default.app.cubemx_cmd = FallbackLiteral
        /\ config_default.app.java_cmd = JavaSentinel

\* C6: with nothing to find, after a load the executable is the per-platform
\* literal; the runtime is its fallback value when no companion-runtime
\* candidate of that literal exists and is executable, and the first such
\* candidate otherwise.
C6_NothingFoundGivesFallbackAndItsRuntime ==
    (pc = "done" /\ NothingToFind) =>
        /\ config_default.app.cubemx_cmd = FallbackLiteral
        /\ (FallbackLiteral = <<>> \/ UsableJava(FallbackLiteral) = {})
              => config_default.app.java_cmd = JavaSentinel
        /\ (FallbackLiteral # <<>> /\ UsableJava(FallbackLiteral) # {})
              => config_default.app.java_cmd =
                     Str(JavaCandidates(FallbackLiteral)[Least(UsableJava(FallbackLiteral))])

\* a load on Windows with nothing to find and no runtime beside the literal
C6_Witness ==
    /\ pc = "done"
    /\ NothingToFind
    /\ my_os = "Windows"
    /\ UsableJava(FallbackLiteral) = {}
    /\ config_default.app.cubemx_cmd = FallbackLiteral
    /\ config_default.app.java_cmd = WindowsJava

PatchTemplate == <<"[platformio]", "\n", "include_dir = Inc", "\n", "src_dir = Src">>

PatchContent == config_default.project.platformio_ini_patch_content

\* <fixtures root>/<test case>/platformio.ini.lockfile
LockFile ==
    Join(Join(IF "STM32PIO_TEST_FIXTURES" \in DOMAIN environ
              THEN PurePath(environ["STM32PIO_TEST_FIXTURES"])
              ELSE DefaultFixtures,
              Getenv("STM32PIO_TEST_CASE")),
         <<"platformio.ini.lockfile">>)

LockFileApplies ==
    /\ CIMarkerPresent
    /\ "STM32PIO_TEST_CASE" \in DOMAIN environ
    /\ Exists(LockFile)

\* C8: after a load the patch content is the three-line template, followed,
\* when the marker and the test-case variable are set and the lock file
\* exists, by a blank line and the whole text of the lock file.
C8_PatchIsTemplatePlusLockText ==
    pc = "done" =>
        PatchContent = IF LockFileApplies
                       THEN PatchTemplate \o <<"\n", "\n">> \o file_text[LockFile]
                       ELSE PatchTemplate

\* a CI load that appends a non-empty lock file found under the default
\* fixtures root
C8_Witness ==
    /\ pc = "done"
    /\ LockFileApplies
    /\ "STM32PIO_TEST_FIXTURES" \notin DOMAIN environ
    /\ file_text[LockFile] # <<>>
    /\ Len(PatchContent) = Len(PatchTemplate) + 2 + Len(file_text[LockFile])

\* C9: every load that completes on the same platform, environment and
\* filesystem leaves config_default equal to what the first load left.
C9_ReloadGivesEqualConfig ==
    (pc = "done" /\ loads >= 1) => config_default = first_config

\* a second load, in CI, with a lock-file text appended
C9_Witness ==
    /\ pc = "done"
    /\ loads = 2
    /\ LockFileApplies
    /\ file_text[LockFile] # <<>>
    /\ PatchContent # PatchTemplate

AppKeys == {"platformio_cmd", "cubemx_cmd", "java_cmd"}

ProjectKeys ==
    {"cubemx_script_content", "platformio_ini_patch_content", "board", "ioc_file",
     "cleanup_ignore", "cleanup_use_git", "inspect_ioc"}

=============================================================================
